---- MODULE Spec2Model ----
(***************************************************************************)
(* Model of src/main.py: the fixture pipeline of main() (fetch, extract,    *)
(* aggregate, country normalisation, score split) and the pure helpers it   *)
(* calls.                                                                   *)
(*                                                                          *)
(* Representation.  A Python value that may be None (a JSON null, a NaN in  *)
(* a DataFrame cell) is an option: Nil for None, Some(v) for the value v.   *)
(* A dict is a function whose domain is its set of keys.  A str that the    *)
(* program takes apart (status.scoreStr) is a sequence of one-character     *)
(* strings, so that str.split is computed, not assumed.  A DataFrame is the *)
(* sequence of its rows, each row a function from column name to cell.      *)
(***************************************************************************)
EXTENDS Integers, Sequences, FiniteSets, TLC

VARIABLES
    pc,          \* position in main(): "loop", "map", "split", "done", "raised"
    idx,         \* 1-based position in leagues of the league the loop handles next
    final_data,  \* main's final_data DataFrame
    origin,      \* history: for each row of final_data, <<league position, match position>>
    last,        \* history: what the most recent loop iteration fetched and logged
    err          \* the exception that left main(), "none" while none has

vars == <<pc, idx, final_data, origin, last, err>>

-----------------------------------------------------------------------------
(* Bounds of the model *)

\* longest allMatches list a response carries
MaxMatches == 2

\* most rows final_data is allowed to grow to
MaxRows == 2

-----------------------------------------------------------------------------
(* Python values *)

Nil == <<>>

Some(x) == <<x>>

EmptyDict == [k \in {} |-> Nil]

\* d.get(k, default) of a dict d
get(d, k, default) == IF k \in DOMAIN d THEN d[k] ELSE default

\* bool(v) of an optional dict: None and {} are falsy
truthy_dict(v) == v # Nil /\ DOMAIN v[1] # {}

\* bool(v) of an optional list: None and [] are falsy
truthy_list(v) == v # Nil /\ Len(v[1]) > 0

-----------------------------------------------------------------------------
(* Program constants *)

leagues ==
    << [id |-> 87, name |-> "laliga"],
       [id |-> 47, name |-> "premier-league"],
       [id |-> 54, name |-> "bundesliga"],
       [id |-> 55, name |-> "serie-a"],
       [id |-> 53, name |-> "ligue-1"],
       [id |-> 57, name |-> "eredivisie"] >>

season == "2023/2024"

country_map ==
    [ESP |-> "Spain", ENG |-> "England", GER |-> "Germany",
     ITA |-> "Italy", FRA |-> "France", NED |-> "Netherlands"]

\* mutation of Separator: split("-")
SeparatorDash == <<"-">>

\* the separator of the score split
Separator == <<" ", "-", " ">>

DetailKeys == {"country", "name", "selectedSeason", "type"}

-----------------------------------------------------------------------------
(* get_league_fixtures *)

\* mutation of raise_for_status: only a 5xx status raises
raise_for_status_5xx(status) == status >= 500 /\ status < 600

\* response.raise_for_status(): raises HTTPError for a 4xx or 5xx status
raise_for_status(status) == status >= 400 /\ status < 600

\* The value get_league_fixtures returns for the outcome `response` of
\* session.get: [exc] is the RequestException session.get raised ("none" if it
\* returned), [status] the status code, [data] the parsed JSON body.
\* raised: the exception that propagates to the caller; logged: the league id
\* in the logger.error line, 0 if nothing was logged.
get_league_fixtures(response, league_id) ==
    IF response.exc # "none" \/ raise_for_status(response.status)
    THEN [raised |-> "none", logged |-> league_id, details |-> Nil, matches |-> Nil]
    ELSE IF \/ "details" \notin DOMAIN response.data
            \/ "matches" \notin DOMAIN response.data
            \/ "allMatches" \notin DOMAIN response.data["matches"]
         THEN [raised |-> "KeyError", logged |-> 0, details |-> Nil, matches |-> Nil]
         ELSE [raised |-> "none", logged |-> 0,
               details |-> response.data["details"],
               matches |-> response.data["matches"]["allMatches"]]

-----------------------------------------------------------------------------
(* extract_details *)

\* mutation of extract_details: "type" is read from details["name"]
extract_details_copy_paste(details) ==
    IF DetailKeys \subseteq DOMAIN details
    THEN [raised |-> "none",
          value |-> [k \in DetailKeys |->
                        IF k = "type" THEN details["name"] ELSE details[k]]]
    ELSE [raised |-> "KeyError", value |-> EmptyDict]

\* mutation of extract_details: details.get(key) in place of details[key]
extract_details_get(details) ==
    [raised |-> "none", value |-> [k \in DetailKeys |-> get(details, k, Nil)]]

\* details["country"] etc. raise KeyError when the key is absent; raised is
\* the exception that leaves the function, value what it returns
extract_details(details) ==
    IF DetailKeys \subseteq DOMAIN details
    THEN [raised |-> "none", value |-> [k \in DetailKeys |-> details[k]]]
    ELSE [raised |-> "KeyError", value |-> EmptyDict]

-----------------------------------------------------------------------------
(* extract_matches *)

\* mutation of nested_get_raises: match.get(outer) without the default {}
nested_get_raises_nodefault(match, outer) == get(match, outer, Nil) = Nil

\* None.get(inner) raises AttributeError: match.get(outer, {}) is None when
\* the key is present with a null value (the default {} is used only when the
\* key is absent)
nested_get_raises(match, outer) == get(match, outer, Some(EmptyDict)) = Nil

\* match.get(outer, {}).get(inner)
nested_get(match, outer, inner) ==
    get(get(match, outer, Some(EmptyDict))[1], inner, Nil)

extract_match_raises(match) ==
    \E outer \in {"away", "home", "status"} : nested_get_raises(match, outer)

extract_match(match) ==
    [away_team |-> nested_get(match, "away", "name"),
     home_team |-> nested_get(match, "home", "name"),
     round     |-> get(match, "round", Nil),
     cancelled |-> nested_get(match, "status", "cancelled"),
     finished  |-> nested_get(match, "status", "finished"),
     date      |-> nested_get(match, "status", "utcTime"),
     result    |-> nested_get(match, "status", "scoreStr")]

extract_matches(matches) ==
    IF \E i \in 1..Len(matches) : extract_match_raises(matches[i])
    THEN [raised |-> "AttributeError", value |-> <<>>]
    ELSE [raised |-> "none",
          value |-> [i \in 1..Len(matches) |-> extract_match(matches[i])]]

-----------------------------------------------------------------------------
(* The responses the API is taken to give *)

Score21 == <<"2", " ", "-", " ", "1">>

Score123 == <<"1", " ", "-", " ", "2", " ", "-", " ", "3">>

\* a finished match, every field present
Played ==
    [id     |-> Some(4193450),
     away   |-> Some([name |-> Some("Away FC")]),
     home   |-> Some([name |-> Some("Home FC")]),
     round  |-> Some(1),
     status |-> Some([cancelled |-> Some(FALSE), finished |-> Some(TRUE),
                      utcTime |-> Some("2023-08-12T15:00:00Z"),
                      scoreStr |-> Some(Score21)])]

\* a match not yet played: no away key and no status key
Scheduled ==
    [id    |-> Some(4193451),
     home  |-> Some([name |-> Some("Home FC")]),
     round |-> Some(2)]

\* a sparse match object: no away key, no round key, a home object with no
\* name, and a status holding only a score string that is not "<int> - <int>"
Sparse ==
    [id     |-> Some(4193453),
     home   |-> Some(EmptyDict),
     status |-> Some([scoreStr |-> Some(Score123)])]

\* a match whose status key is present with a JSON null
NullStatus ==
    [id     |-> Some(4193454),
     away   |-> Some([name |-> Some("Away FC")]),
     home   |-> Some([name |-> Some("Home FC")]),
     round  |-> Some(4),
     status |-> Nil]

RawMatches == {Played, Scheduled, Sparse, NullStatus}

MatchLists == UNION {[1..n -> RawMatches] : n \in 0..MaxMatches}

CountryCodes == <<"ESP", "ENG", "GER", "ITA", "FRA", "NED">>

FullDetails(code, name) ==
    [id |-> Some(1), country |-> Some(code), name |-> Some(name),
     selectedSeason |-> Some(season), type |-> Some("league")]

\* a details object with no country key
PartialDetails(name) ==
    [id |-> Some(1), name |-> Some(name),
     selectedSeason |-> Some(season), type |-> Some("league")]

\* the details objects the API may return for the league at position i
DetailsChoices(i) ==
    {Nil, Some(EmptyDict),
     Some(PartialDetails(leagues[i].name)),
     Some(FullDetails(CountryCodes[i], leagues[i].name)),
     Some(FullDetails("XYZ", leagues[i].name))}

Body(details, allMatches) ==
    [details |-> details, matches |-> [allMatches |-> allMatches]]

Responses(i) ==
    {[exc |-> "ConnectionError", status |-> 0, data |-> EmptyDict]}
    \cup {[exc |-> "none", status |-> st, data |-> EmptyDict] : st \in {404, 500}}
    \cup {[exc |-> "none", status |-> 200, data |-> [details |-> Some(EmptyDict)]]}
    \cup {[exc |-> "none", status |-> 200, data |-> Body(d, Nil)] : d \in DetailsChoices(i)}
    \cup {[exc |-> "none", status |-> 200, data |-> Body(d, Some(m))] :
            d \in DetailsChoices(i), m \in MatchLists}

\* the responses per league position
ResponsesOf == [i \in 1..Len(leagues) |-> Responses(i)]

-----------------------------------------------------------------------------
(* DataFrame operations used by main *)

\* df.columns; a DataFrame that was never concatenated to has no columns, and
\* every league_df concatenated has at least one row
Columns(df) == IF Len(df) = 0 THEN {} ELSE DOMAIN df[1]

\* league_df.assign(**details_dict): every row gets the same value per keyword
assign(df, details_dict) == [i \in 1..Len(df) |-> details_dict @@ df[i]]

\* mutation of concat: pd.concat([league_df, final_data], ignore_index=True)
concat_prepend(df, league_df) == league_df \o df

\* pd.concat([final_data, league_df], ignore_index=True)
concat(df, league_df) == df \o league_df

\* mutation of map_country: a value that is no key is kept (Series.replace)
map_country_keep(cell) ==
    IF cell # Nil /\ cell[1] \in DOMAIN country_map
    THEN Some(country_map[cell[1]])
    ELSE cell

\* one cell of Series.map(country_map): a value that is no key gives NaN
map_country(cell) ==
    IF cell # Nil /\ cell[1] \in DOMAIN country_map
    THEN Some(country_map[cell[1]])
    ELSE Nil

\* the first position at or after i where sep occurs in s, 0 if none
RECURSIVE find(_, _, _)
find(s, sep, i) ==
    IF i + Len(sep) - 1 > Len(s) THEN 0
    ELSE IF SubSeq(s, i, i + Len(sep) - 1) = sep THEN i
    ELSE find(s, sep, i + 1)

\* str.split(sep) of one string
RECURSIVE str_split(_, _)
str_split(s, sep) ==
    LET i == find(s, sep, 1)
    IN  IF i = 0 THEN <<s>>
        ELSE <<SubSeq(s, 1, i - 1)>> \o str_split(SubSeq(s, i + Len(sep), Len(s)), sep)

\* the list str.split builds for one cell before expansion: [NaN] for a NaN
split_cell(cell) ==
    IF cell = Nil THEN <<Nil>>
    ELSE LET parts == str_split(cell[1], Separator)
         IN  [j \in 1..Len(parts) |-> Some(parts[j])]

Max(S) == CHOOSE m \in S : \A x \in S : x <= m

\* number of columns of Series.str.split(sep, expand=True): the longest list
split_width(column) ==
    IF Len(column) = 0 THEN 0
    ELSE Max({Len(split_cell(column[i])) : i \in 1..Len(column)})

\* cell (i, j) of the expanded frame: NaN rows are NaN in every column, shorter
\* lists are padded with None
split_expand(column, i, j) ==
    IF column[i] = Nil THEN Nil
    ELSE IF j <= Len(split_cell(column[i])) THEN split_cell(column[i])[j]
    ELSE Nil

\* final_data[["home_score", "away_score"]] = <frame>: raises ValueError
\* ("Columns must be same length as key") unless the frame has 2 columns
setitem_raises(width) == width # 2

\* the row after the score split and drop(columns=["result"])
split_row(df, i) ==
    LET column == [k \in 1..Len(df) |-> df[k].result]
    IN  [c \in (DOMAIN df[i] \ {"result"}) \cup {"home_score", "away_score"} |->
            IF c = "home_score" THEN split_expand(column, i, 1)
            ELSE IF c = "away_score" THEN split_expand(column, i, 2)
            ELSE df[i][c]]

-----------------------------------------------------------------------------
(* main *)

\* mutation of contributes: `if details is not None and matches:`
contributes_not_none(details, matches) == details # Nil /\ truthy_list(matches)

\* `if details and matches:`
contributes(details, matches) == truthy_dict(details) /\ truthy_list(matches)

\* how a returned match list looks to `if details and matches:`
list_kind(matches) ==
    IF matches = Nil THEN "None"
    ELSE IF Len(matches[1]) = 0 THEN "empty" ELSE "nonempty"

NoFetch ==
    [league |-> 0, exc |-> "none", status |-> 0, logged |-> 0,
     returned |-> FALSE, details |-> Nil, list |-> "None",
     extracted |-> FALSE, matches |-> <<>>]

\* what an iteration leaves in `last`: the position of the league, the outcome
\* of session.get (exception, status code), the league id logged (0 if none),
\* whether get_league_fixtures returned, the details it returned, the kind of
\* match list it returned, whether extract_matches was called and the list it
\* was called with
Fetched(response, r, extracted) ==
    [league |-> idx, exc |-> response.exc, status |-> response.status,
     logged |-> r.logged, returned |-> (r.raised = "none"),
     details |-> r.details, list |-> list_kind(r.matches),
     extracted |-> extracted,
     matches |-> IF extracted THEN r.matches[1] ELSE <<>>]

Init ==
    /\ pc = "loop"
    /\ idx = 1
    /\ final_data = <<>>
    /\ origin = <<>>
    /\ last = NoFetch
    /\ err = "none"

\* an exception leaves main(): its frame, final_data included, is gone
Raise(exception, fetched) ==
    /\ pc' = "raised"
    /\ err' = exception
    /\ final_data' = <<>>
    /\ origin' = <<>>
    /\ last' = fetched
    /\ UNCHANGED idx

\* the response fits the bounds of the model
Fits(response) ==
    LET r == get_league_fixtures(response, leagues[idx].id)
    IN  (r.raised = "none" /\ r.matches # Nil) =>
            Len(final_data) + Len(r.matches[1]) <= MaxRows

\* the loop continues with the next league, or ends after the last one
Advance ==
    /\ idx' = idx + 1
    /\ pc' = IF idx = Len(leagues) THEN "map" ELSE "loop"
    /\ UNCHANGED err

\* one iteration of `for league in leagues:` (lines 111-121)
Iterate(response) ==
    /\ pc = "loop"
    /\ LET league == leagues[idx]
           r == get_league_fixtures(response, league.id)
       IN  IF r.raised # "none"
           THEN Raise(r.raised, Fetched(response, r, FALSE))
           ELSE IF contributes(r.details, r.matches)
           THEN LET details_dict == extract_details(r.details[1])
                    matches_dict == extract_matches(r.matches[1])
                    league_df == assign(matches_dict.value, details_dict.value)
                    tags == [k \in 1..Len(league_df) |-> <<idx, k>>]
                IN  IF details_dict.raised # "none"
                    THEN Raise(details_dict.raised, Fetched(response, r, FALSE))
                    ELSE IF matches_dict.raised # "none"
                    THEN Raise(matches_dict.raised, Fetched(response, r, TRUE))
                    ELSE /\ final_data' = concat(final_data, league_df)
                         /\ origin' = concat(origin, tags)
                         /\ last' = Fetched(response, r, TRUE)
                         /\ Advance
           ELSE /\ last' = Fetched(response, r, FALSE)
                /\ Advance
                /\ UNCHANGED <<final_data, origin>>

\* final_data["country"] = final_data["country"].map(country_map) (line 132)
MapCountry ==
    /\ pc = "map"
    /\ IF "country" \notin Columns(final_data)
       THEN Raise("KeyError", last)
       ELSE /\ final_data' =
                   [i \in 1..Len(final_data) |->
                       [final_data[i] EXCEPT !["country"] = map_country(@)]]
            /\ pc' = "split"
            /\ UNCHANGED <<idx, origin, last, err>>

\* the score split and the drop of the result column (lines 135-138), then
\* `return final_data`
SplitResult ==
    /\ pc = "split"
    /\ LET column == [k \in 1..Len(final_data) |-> final_data[k].result]
       IN  IF setitem_raises(split_width(column))
           THEN Raise("ValueError", last)
           ELSE /\ final_data' = [i \in 1..Len(final_data) |-> split_row(final_data, i)]
                /\ pc' = "done"
                /\ UNCHANGED <<idx, origin, last, err>>

\* the loop of main over the responses the API may give
Loop ==
    /\ pc = "loop"
    /\ \E response \in ResponsesOf[idx] : Fits(response) /\ Iterate(response)

Next ==
    \/ Loop
    \/ MapCountry
    \/ SplitResult

Spec == Init /\ [][Next]_vars

-----------------------------------------------------------------------------
(* Properties *)

MatchKeys ==
    {"away_team", "home_team", "round", "cancelled", "finished", "date", "result"}

\* the positions in final_data of the rows the league at position i contributed
RowsOf(i) == {k \in 1..Len(origin) : origin[k][1] = i}

\* session.get raised, or the response is not a 2xx
FetchFailed(l) == l.exc # "none" \/ l.status \notin 200..299

\* both values get_league_fixtures returned are non-empty
BothNonEmpty(l) ==
    /\ l.returned
    /\ l.details # Nil
    /\ l.details # Some(EmptyDict)
    /\ l.list = "nonempty"

\* the iteration went on to the next league (or left the loop after the last
\* league) without an exception
WentOn ==
    /\ err' = "none"
    /\ idx' = idx + 1
    /\ pc' = IF idx = Len(leagues) THEN "map" ELSE "loop"

C2_RowsOnlyIfBothNonEmpty ==
    [][pc = "loop" =>
          /\ (Len(final_data') > Len(final_data) => BothNonEmpty(last'))
          /\ (last'.returned /\ ~BothNonEmpty(last') =>
                 /\ final_data' = final_data
                 /\ origin' = origin
                 /\ WentOn)]_vars

\* the third league returned an empty details object with a non-empty match
\* list and was skipped; the table holds the rows of an earlier league only
C2_Witness ==
    /\ pc = "loop"
    /\ last.league = 3
    /\ last.details = Some(EmptyDict)
    /\ last.list = "nonempty"
    /\ RowsOf(3) = {}
    /\ Len(final_data) > 0

LexLess(a, b) == a[1] < b[1] \/ (a[1] = b[1] /\ a[2] < b[2])

\* the 7 match columns of a row
MatchFieldsOf(row) == [f \in MatchKeys |-> row[f]]

\* C3: the rows of final_data are in league-list order and, within a league,
\* in the order of the league's fetched match list, whichever leagues were
\* skipped: row k of the most recent league is the record of its k-th match.
C3_RowOrder ==
    /\ Len(origin) = Len(final_data)
    /\ \A k, n \in 1..Len(origin) : k < n => LexLess(origin[k], origin[n])
    /\ (pc \in {"loop", "map"} /\ last.extracted) =>
          \A j \in 1..Len(last.matches) :
             \E k \in 1..Len(origin) :
                /\ origin[k] = <<last.league, j>>
                /\ k = Len(final_data) - Len(last.matches) + j
                /\ MatchFieldsOf(final_data[k]) = extract_match(last.matches[j])

\* a finished run whose two rows come from the second and the fifth league
C3_Witness ==
    /\ pc = "done"
    /\ Len(origin) = 2
    /\ origin[1][1] = 2
    /\ origin[2][1] = 5

\* the rows of one league carry the same 4 detail values
SameDetailsPerLeague ==
    \A k, n \in 1..Len(origin) :
       origin[k][1] = origin[n][1] =>
          \A f \in DetailKeys : final_data[k][f] = final_data[n][f]

\* the rows of the league just appended carry the fetched details
CarriesFetchedDetails ==
    (pc \in {"loop", "map"} /\ last.extracted) =>
       \A k \in RowsOf(last.league) :
          \A f \in DetailKeys : final_data[k][f] = last.details[1][f]

\* C4: every row a league contributes carries the league's fetched values of
\* country, name, selectedSeason and type, the rows of one league agree on
\* them, and appending a later league leaves the earlier rows as they were.
C4_DetailsBroadcast ==
    [][/\ SameDetailsPerLeague'
       /\ CarriesFetchedDetails'
       /\ (pc = "loop" /\ pc' # "raised" =>
              SubSeq(final_data', 1, Len(final_data)) = final_data)]_vars

\* the fourth league contributed two different rows
C4_Witness ==
    /\ pc = "loop"
    /\ last.league = 4
    /\ Cardinality(RowsOf(4)) = 2
    /\ final_data[1] # final_data[2]

\* the value at m[outer][inner], None when a key on the way is absent
Deep(m, outer, inner) ==
    IF outer \in DOMAIN m /\ inner \in DOMAIN m[outer][1]
    THEN m[outer][1][inner]
    ELSE Nil

\* the record the spec prescribes for a raw match object
ExpectedRecord(m) ==
    [away_team |-> Deep(m, "away", "name"),
     home_team |-> Deep(m, "home", "name"),
     round     |-> IF "round" \in DOMAIN m THEN m["round"] ELSE Nil,
     cancelled |-> Deep(m, "status", "cancelled"),
     finished  |-> Deep(m, "status", "finished"),
     date      |-> Deep(m, "status", "utcTime"),
     result    |-> Deep(m, "status", "scoreStr")]

\* no away, home or status key of a match of the list holds a JSON null
NoNullObject(matches) ==
    \A j \in 1..Len(matches) :
       \A outer \in {"away", "home", "status"} :
          outer \in DOMAIN matches[j] => matches[j][outer] # Nil

\* one record per match of the list, each field the raw value or None
OneRecordPerMatch ==
    (pc \in {"loop", "map"} /\ last.extracted) =>
       /\ Cardinality(RowsOf(last.league)) = Len(last.matches)
       /\ \A k \in RowsOf(last.league) :
             MatchFieldsOf(final_data[k]) = ExpectedRecord(last.matches[origin[k][2]])

\* C5: extract_matches does not fail on match objects with missing keys: each
\* of the 7 fields is the raw value when its keys are present and None
\* otherwise, independently of the other fields and matches, and there is one
\* record per match.
C5_MissingKeysTolerated ==
    [][/\ OneRecordPerMatch'
       /\ (pc = "loop" /\ last'.extracted /\ NoNullObject(last'.matches) =>
              pc' # "raised")]_vars

\* a league whose two matches both lack keys contributed two rows
C5_Witness ==
    /\ pc = "loop"
    /\ last.extracted
    /\ last.matches = <<Scheduled, Sparse>>
    /\ Cardinality(RowsOf(last.league)) = 2

Digits == {"0", "1", "2", "3", "4", "5", "6", "7", "8", "9"}

\* the score string "h - a"
ScoreString(h, a) == <<h, " ", "-", " ", a>>

WellFormed(cell) == \E h, a \in Digits : cell = Some(ScoreString(h, a))

\* no row of the table holds a score string that is not "<int> - <int>"
NoMalformedResult ==
    \A k \in 1..Len(final_data) :
       final_data[k].result = Nil \/ WellFormed(final_data[k].result)

\* C6 (as claimed): in a table without malformed score strings, the score
\* split raises nothing and gives every row whose result is absent an absent
\* home_score and an absent away_score, also when every result is absent.
C6_AbsentResultGivesAbsentScores ==
    [][(pc = "split" /\ NoMalformedResult) =>
          /\ pc' = "done"
          /\ \A k \in 1..Len(final_data) :
                final_data[k].result = Nil =>
                   /\ final_data'[k].home_score = Nil
                   /\ final_data'[k].away_score = Nil]_vars

\* C7: when the score split is reached with a table that holds a well-formed
\* "H - A" result and no malformed one, it completes; whenever it completes,
\* every row with a well-formed result gets home_score = "H" and
\* away_score = "A", and no row keeps the result column.
C7_WellFormedScoreIsSplit ==
    [][pc = "split" =>
          /\ (NoMalformedResult
                 /\ (\E k \in 1..Len(final_data) : WellFormed(final_data[k].result))
              => pc' = "done")
          /\ (pc' = "done" =>
                 /\ Len(final_data') = Len(final_data)
                 /\ \A k \in 1..Len(final_data) :
                       /\ "result" \notin DOMAIN final_data'[k]
                       /\ {"home_score", "away_score"} \subseteq DOMAIN final_data'[k]
                       /\ \A h, a \in Digits :
                             final_data[k].result = Some(ScoreString(h, a)) =>
                                /\ final_data'[k].home_score = Some(<<h>>)
                                /\ final_data'[k].away_score = Some(<<a>>))]_vars

\* a returned table with a "2 - 1" row split into "2" and "1", next to a row
\* whose scores are absent
C7_Witness ==
    /\ pc = "done"
    /\ Len(final_data) = 2
    /\ final_data[1].home_score = Some(<<"2">>)
    /\ final_data[1].away_score = Some(<<"1">>)
    /\ final_data[2].home_score = Nil

\* the fetched details are an object that lacks one of the 4 required keys
MissingRequiredKey(l) ==
    /\ l.returned
    /\ l.details # Nil
    /\ ~(DetailKeys \subseteq DOMAIN l.details[1])

\* C8 (as claimed): a fetched, non-empty details object that lacks a required
\* key makes the run raise; the league is never silently skipped.
C8_MissingFieldAlwaysRaises ==
    [][(pc = "loop" /\ MissingRequiredKey(last') /\ last'.details # Some(EmptyDict)) =>
          /\ pc' = "raised"
          /\ err' = "KeyError"]_vars

\* C8 (amended): a fetched details object that lacks a required key makes the
\* run raise KeyError exactly when the object is non-empty and the fetched
\* match list is non-empty; an empty details object, or an absent or empty
\* match list, makes the loop skip the league silently.
C8_MissingFieldRaisesIfMatches ==
    [][(pc = "loop" /\ MissingRequiredKey(last')) =>
          IF last'.details # Some(EmptyDict) /\ last'.list = "nonempty"
          THEN /\ pc' = "raised"
               /\ err' = "KeyError"
               /\ final_data' = <<>>
          ELSE /\ final_data' = final_data
               /\ WentOn]_vars

\* the run ended in KeyError on a details object without a country key
C8_Witness ==
    /\ pc = "raised"
    /\ err = "KeyError"
    /\ last.league = 2
    /\ last.details = Some(PartialDetails("premier-league"))
    /\ last.list = "nonempty"

\* C9: country normalisation replaces a code of the 6-entry lookup by its
\* display name ("ESP" by "Spain") and any other code ("XYZ") by an absent
\* value, without an error; every row stays, in place, with its other fields
\* unchanged.
C9_CountryNormalisation ==
    [][(pc = "map" /\ Len(final_data) > 0) =>
          /\ pc' = "split"
          /\ err' = "none"
          /\ origin' = origin
          /\ Len(final_data') = Len(final_data)
          /\ \A k \in 1..Len(final_data) :
                LET row == final_data[k]
                    new == final_data'[k]
                IN  /\ DOMAIN new = DOMAIN row
                    /\ \A c \in DOMAIN row \ {"country"} : new[c] = row[c]
                    /\ (row.country = Some("ESP") => new.country = Some("Spain"))
                    /\ (row.country = Some("XYZ") => new.country = Nil)
                    /\ \A code \in DOMAIN country_map :
                          row.country = Some(code) =>
                             new.country = Some(country_map[code])
                    /\ (row.country = Nil \/ row.country[1] \notin DOMAIN country_map
                           => new.country = Nil)]_vars

\* after normalisation the first league's row reads "Spain" and the row of a
\* league fetched with the code "XYZ" has no country
C9_Witness ==
    /\ pc = "split"
    /\ Len(final_data) = 2
    /\ origin[1][1] = 1
    /\ final_data[1].country = Some("Spain")
    /\ last.extracted
    /\ last.details[1].country = Some("XYZ")
    /\ final_data[2].country = Nil

\* C10 (as claimed): whatever leagues failed or came back empty, all 6
\* included, post-processing raises nothing: country normalisation completes,
\* and on a table without malformed score strings the score split completes
\* and returns the rows of the leagues that were fetched.
C10_MainCompletes ==
    [][/\ (pc = "map" => pc' = "split")
       /\ (pc = "split" /\ NoMalformedResult =>
              /\ pc' = "done"
              /\ Len(final_data') = Len(final_data))]_vars

====
